---- MODULE Spec2Model ----
(***************************************************************************)
(* The fine-tune orchestration pipeline of gather-and-finetune.js: feedback *)
(* read, JSONL dataset build, upload, job submission, status polling,       *)
(* Netlify environment upsert and redeploy.  Two pipeline runs share the    *)
(* model provider and the hosting configuration store.                      *)
(***************************************************************************)
EXTENDS Integers, Sequences, FiniteSets, TLC

VARIABLES
  pc,        \* per run: the statement of main() the run is at
  env,       \* per run: the environment variables that are set (process.env)
  rows,      \* per run: the reply { data: rows, error } of the feedback query
  file,      \* per run: content of training-data.jsonl (NoFile before the write)
  fileId,    \* per run: fileResp.data.id
  jobId,     \* per run: ftResp.data.id
  status,    \* per run: the local variable status
  polled,    \* per run: the statuses read inside the poll loop, in order
  newModel,  \* per run: finalJob.data.fine_tuned_model
  envVars,   \* per run: envResp.data || [], the listed environment entries
  exitCode,  \* per run: the code given to process.exit
  calls,     \* per run: the calls and file writes issued so far, in order
             \* (the status reads of the poll loop are in polled)
  logged,    \* per run: the model identifier printed to the operator
  files,     \* provider: the uploaded files
  jobs,      \* provider: the fine-tune jobs, indexed by job id
  store,     \* hosting platform: the environment entries of the site
  builds,    \* hosting platform: the builds triggered, by run
  hpc,           \* report handler: where the handler of the request in progress is
  revision,      \* report handler: the revision of generate-report.js deployed
  clock,         \* report handler: the time, as new Date() reads it
  event,         \* report handler: the request in progress
  weatherResult, \* report handler: the local variable weatherResult
  weatherCalls,  \* weather API: the history requests received for this request
  response,      \* report handler: the response returned for this request
  process,       \* report handler: the process serving requests, its MODEL_NAME
                 \* and the models its chat completions asked for
  deployed       \* hosting platform: the deploy in production and the value of
                 \* FINE_TUNED_MODEL_NAME its functions are started with

vars == <<pc, env, rows, file, fileId, jobId, status, polled, newModel, envVars,
          exitCode, calls, logged, files, jobs, store, builds,
          hpc, revision, clock, event, weatherResult, weatherCalls, response,
          process, deployed>>

\* the state of the report handler
served == <<hpc, revision, clock, event, weatherResult, weatherCalls, response,
            process, deployed>>

Runs == {"r1", "r2"}

----------------------------------------------------------------------------
(* Bounds *)

MaxPolls == 3     \* poll replies recorded per run (later ones are not recorded)
MaxLen   == 3     \* length of a generated_text drawn for the dataset builder
MaxRows  == 2     \* rows of a feedback reply drawn for the dataset builder
MaxTime  == 3     \* instants of the clock of the report handler
MaxProcs == 3     \* processes of the report handler started, one after another

----------------------------------------------------------------------------
(* Text.  A string is a sequence of characters; SP, NL, QT and BS stand for *)
(* the space, the line feed, the double quote and the backslash.  The fixed *)
(* pieces of the templates are single tokens.                               *)

Null == "null"
NoText == <<"undefined">>            \* row.generated_text is null or undefined
NoFile == <<"ENOENT">>               \* training-data.jsonl was not written

Whitespace == {"SP", "NL"}
Alphabet == {"n", "NL", "QT", "BS"}

RECURSIVE TrimStart(_)
TrimStart(s) ==
  IF s # <<>> /\ Head(s) \in Whitespace THEN TrimStart(Tail(s)) ELSE s

RECURSIVE TrimEnd(_)
TrimEnd(s) ==
  IF s # <<>> /\ s[Len(s)] \in Whitespace
  THEN TrimEnd(SubSeq(s, 1, Len(s) - 1)) ELSE s

\* String.prototype.trim
Trim(s) == TrimEnd(TrimStart(s))

\* the escapes JSON.stringify applies inside a string literal
EscapeCharRaw(c) == <<c>>
EscapeChar(c) ==
  CASE c = "QT" -> <<"BS", "QT">>
    [] c = "BS" -> <<"BS", "BS">>
    [] c = "NL" -> <<"BS", "n">>
    [] OTHER    -> <<c>>

RECURSIVE Escape(_)
Escape(s) == IF s = <<>> THEN <<>> ELSE EscapeChar(Head(s)) \o Escape(Tail(s))

\* JSON.stringify({ prompt, completion })
Stringify(ex) ==
  <<"{", "QT", "prompt", "QT", ":", "QT">> \o Escape(ex.prompt)
    \o <<"QT", ",", "QT", "completion", "QT", ":", "QT">>
    \o Escape(ex.completion) \o <<"QT", "}">>

\* the prompt template of one row
Prompt(row) ==
  <<"Section: ">> \o row.section_id \o <<"NL", "User feedback: ">>
    \o row.feedback \o <<"NL", "NL", "Now produce the final text:", "NL">>

\* the completion of one row
CompletionUntrimmed(row) == row.generated_text \o <<"SP", "END">>
Completion(row) == Trim(row.generated_text) \o <<"SP", "END">>

\* the callback of rows.map
Example(row) == [prompt |-> Prompt(row), completion |-> Completion(row)]

\* row.generated_text.trim() throws a TypeError on null/undefined
MapNeverThrows(items) == FALSE
MapThrows(items) == \E i \in 1..Len(items) : items[i].generated_text = NoText

Lines(items) == [i \in 1..Len(items) |-> Stringify(Example(items[i]))]

RECURSIVE Join(_, _)
Join(ls, sep) ==
  IF ls = <<>> THEN <<>>
  ELSE IF Len(ls) = 1 THEN ls[1]
  ELSE ls[1] \o sep \o Join(Tail(ls), sep)

\* lines.join("\n") + "\n"
FileContentNoNewline(items) == Join(Lines(items), <<"NL">>)
FileContent(items) == Join(Lines(items), <<"NL">>) \o <<"NL">>

----------------------------------------------------------------------------
(* The environment of a run, the provider and the hosting platform *)

EnvNames == {"SUPABASE_URL", "SUPABASE_SERVICE_ROLE_KEY", "OPENAI_API_KEY",
             "NETLIFY_AUTH_TOKEN", "NETLIFY_SITE_ID"}

\* all variables set, or exactly one of them missing
EnvChoices == {EnvNames} \cup {EnvNames \ {v} : v \in EnvNames}

ModelKey == "FINE_TUNED_MODEL_NAME"
OldModel == "ft-old"

\* fine_tuned_model of the job with the given id, once it has succeeded
ModelNames == <<"ft-job-1", "ft-job-2">>
ModelOf(j) == ModelNames[j]

Status == {"queued", "running", "succeeded", "failed"}
Terminal == {"succeeded", "failed"}

Row(s, f, g) == [section_id |-> s, feedback |-> f, generated_text |-> g]

GoodRow1 == Row(<<"a">>, <<"a", "QT">>, <<"SP", "a", "NL">>)
GoodRow2 == Row(<<"n">>, <<"NL">>, <<"BS", "n">>)
BadRow   == Row(<<"a">>, <<"a">>, NoText)

\* the reply of the feedback query: not received yet, an error (data is null),
\* or data that is null or a sequence of rows
NoReply == [got |-> FALSE, error |-> FALSE, null |-> TRUE, items |-> <<>>]
ErrorReply == [got |-> TRUE, error |-> TRUE, null |-> TRUE, items |-> <<>>]
NullData == [got |-> TRUE, error |-> FALSE, null |-> TRUE, items |-> <<>>]
Data(items) == [got |-> TRUE, error |-> FALSE, null |-> FALSE, items |-> items]
DataChoices == {NullData, Data(<<>>), Data(<<GoodRow1, GoodRow2>>),
                Data(<<GoodRow1, BadRow>>)}

Entry(i, k, v) == [id |-> i, key |-> k, value |-> v]
NotFound == Entry(0, "undefined", Null)

StoreChoices == {<<>>,
                 <<Entry(1, "OPENAI_API_KEY", "sk")>>,
                 <<Entry(1, "OPENAI_API_KEY", "sk"), Entry(2, ModelKey, OldModel)>>,
                 <<Entry(1, ModelKey, OldModel), Entry(2, "OPENAI_API_KEY", "sk")>>}

Call(op, id, value) == [op |-> op, id |-> id, value |-> value]

----------------------------------------------------------------------------
(* Values of the report handler *)

Revisions == {"generate-report.js", "part_000"}

Times == 1..MaxTime

\* a string field of the request body: absent, empty, or a non-empty string
Undefined == "undefined"
Truthy(v) == v # Undefined /\ v # ""

\* context.dateOfLoss: absent, empty, a string new Date() cannot parse, or a
\* string that denotes the instant time
NoDate == [kind |-> "undefined", time |-> 0]
EmptyDate == [kind |-> "empty", time |-> 0]
BadDate == [kind |-> "invalid", time |-> 0]
DateAt(t) == [kind |-> "date", time |-> t]
DateStrings == {NoDate, EmptyDate, BadDate} \cup {DateAt(t) : t \in Times}
TruthyDate(d) == d.kind \notin {"undefined", "empty"}

\* the event: the method, the body ("garbage" is not JSON, "null" is the JSON
\* null, "object" is an object with the fields that follow), section, whether
\* context is present, context.address, context.dateOfLoss
Request(m, b, sec, ctx, a, d) ==
  [httpMethod |-> m, body |-> b, section |-> sec, context |-> ctx,
   address |-> a, dateOfLoss |-> d]
NoRequest == Request("none", "garbage", Undefined, FALSE, Undefined, NoDate)
Events ==
  {Request("OPTIONS", "garbage", Undefined, FALSE, Undefined, NoDate),
   Request("POST", "garbage", Undefined, FALSE, Undefined, NoDate),
   Request("POST", "null", Undefined, FALSE, Undefined, NoDate)}
  \cup {Request("POST", "object", sec, FALSE, Undefined, NoDate) :
          sec \in {Undefined, "Summary"}}
  \cup {Request("POST", "object", sec, TRUE, a, d) :
          sec \in {Undefined, "Summary"}, a \in {Undefined, "", "12 Main St"},
          d \in DateStrings}

\* the data of a weather result: {} , { note }, the fields of a day, or no data
\* member at all ({ success: false, error })
EmptyData == [kind |-> "empty", text |-> "", date |-> 0]
NoData == [kind |-> "undefined", text |-> "", date |-> 0]
NoteText(v) ==
  IF v = "generate-report.js" THEN "Future date: "
  ELSE "Weather data not found for future date: "
Note(v, d) == [kind |-> "note", text |-> NoteText(v), date |-> d.time]
DayFields(v) ==
  IF v = "generate-report.js" THEN "maxTemp,minTemp,condition"
  ELSE "maxTemp,minTemp,avgTemp,conditions"
DayData(v, d) == [kind |-> "day", text |-> DayFields(v), date |-> d.time]

Result(ok, data) == [success |-> ok, data |-> data]
Response(code, data) == [statusCode |-> code, weatherData |-> data]
NoResponse == Response(0, NoData)

\* no request has been received
ReportIdle ==
  /\ hpc = "idle"
  /\ event = NoRequest
  /\ weatherResult = Result(TRUE, EmptyData)
  /\ weatherCalls = <<>>
  /\ response = NoResponse

\* process.env.FINE_TUNED_MODEL_NAME || 'gpt-4o-mini-2024-07-18' (part_000:
\* 'gpt-3.5-turbo')
DefaultModel(v) ==
  IF v = "generate-report.js" THEN "gpt-4o-mini-2024-07-18" ELSE "gpt-3.5-turbo"
ModelName(v, configured) ==
  IF Truthy(configured) THEN configured ELSE DefaultModel(v)

\* the value of the first entry with the given key, Undefined without one
EnvValue(es, key) ==
  IF \E i \in 1..Len(es) : es[i].key = key
  THEN es[CHOOSE i \in 1..Len(es) :
            es[i].key = key /\ \A k \in 1..(i - 1) : es[k].key # key].value
  ELSE Undefined

Deploy(n, value) == [count |-> n, value |-> value]
Process(n, d, m, used) == [id |-> n, deploy |-> d, modelName |-> m, used |-> used]

\* the site is deployed with the entries of the store and a first process of the
\* handler is up
FirstDeploy ==
  /\ deployed = Deploy(0, EnvValue(store, ModelKey))
  /\ process = Process(1, 0, ModelName(revision, EnvValue(store, ModelKey)), {})

Init ==
  /\ ReportIdle /\ revision = "generate-report.js" /\ clock = 1
  /\ pc = [r \in Runs |-> "start"]
  /\ env \in [Runs -> EnvChoices]
  /\ rows = [r \in Runs |-> NoReply]
  /\ file = [r \in Runs |-> NoFile]
  /\ fileId = [r \in Runs |-> 0]
  /\ jobId = [r \in Runs |-> 0]
  /\ status = [r \in Runs |-> Null]
  /\ polled = [r \in Runs |-> <<>>]
  /\ newModel = [r \in Runs |-> Null]
  /\ envVars = [r \in Runs |-> <<>>]
  /\ exitCode = [r \in Runs |-> -1]
  /\ calls = [r \in Runs |-> <<>>]
  /\ logged = [r \in Runs |-> Null]
  /\ files = <<>>
  /\ jobs = <<>>
  /\ store \in StoreChoices
  /\ builds = <<>>
  /\ FirstDeploy

----------------------------------------------------------------------------
(* Steps of main() *)

\* process.exit(code)
Exit(r, code) ==
  /\ pc' = [pc EXCEPT ![r] = "exited"]
  /\ exitCode' = [exitCode EXCEPT ![r] = code]

\* the catch block: an exception of any stage ends the process with code 1
CaughtAsSuccess(r) == Exit(r, 0)
CaughtAndRetried(r) == UNCHANGED <<pc, exitCode>>
Caught(r) == Exit(r, 1)

Goto(r, label) ==
  /\ pc' = [pc EXCEPT ![r] = label]
  /\ UNCHANGED exitCode

Issue(r, c) == calls' = [calls EXCEPT ![r] = Append(@, c)]

\* if (!supabaseUrl || !supabaseKey)
SupabaseMissingUrlOnly(e) == "SUPABASE_URL" \notin e
SupabaseMissing(e) ==
  "SUPABASE_URL" \notin e \/ "SUPABASE_SERVICE_ROLE_KEY" \notin e

Start(r) ==
  /\ pc[r] = "start"
  /\ IF SupabaseMissing(env[r]) THEN Exit(r, 1) ELSE Goto(r, "query")
  /\ UNCHANGED <<env, rows, file, fileId, jobId, status, polled, newModel,
                 envVars, calls, logged, files, jobs, store, builds>>
  /\ UNCHANGED served

\* if (!rows || rows.length === 0)
NoRowsNullOnly(d) == d.null
NoRows(d) == d.null \/ Len(d.items) = 0

\* await supabase.from("feedback").select("*").gte("rating", 6)
QueryErrorUnchecked(r) ==
  /\ pc[r] = "query"
  /\ Issue(r, Call("query", 0, Null))
  /\ \/ /\ Caught(r)
        /\ UNCHANGED rows
     \/ /\ rows' = [rows EXCEPT ![r] = ErrorReply]   \* no if (error): !rows exits with 0
        /\ Exit(r, 0)
     \/ \E d \in DataChoices :
          /\ rows' = [rows EXCEPT ![r] = d]
          /\ IF NoRows(d) THEN Exit(r, 0) ELSE Goto(r, "build")
  /\ UNCHANGED <<env, file, fileId, jobId, status, polled, newModel, envVars,
                 logged, files, jobs, store, builds>>
  /\ UNCHANGED served

Query(r) ==
  /\ pc[r] = "query"
  /\ Issue(r, Call("query", 0, Null))
  /\ \/ /\ Caught(r)                         \* the call throws
        /\ UNCHANGED rows
     \/ /\ rows' = [rows EXCEPT ![r] = ErrorReply]   \* if (error)
        /\ Exit(r, 1)
     \/ \E d \in DataChoices :
          /\ rows' = [rows EXCEPT ![r] = d]
          /\ IF NoRows(d) THEN Exit(r, 0) ELSE Goto(r, "build")
  /\ UNCHANGED <<env, file, fileId, jobId, status, polled, newModel, envVars,
                 logged, files, jobs, store, builds>>
  /\ UNCHANGED served

\* rows.map(...) and fs.writeFileSync("training-data.jsonl", ...)
BuildDataset(r) ==
  /\ pc[r] = "build"
  /\ IF MapThrows(rows[r].items)
     THEN /\ Caught(r)
          /\ UNCHANGED <<file, calls>>
     ELSE /\ file' = [file EXCEPT ![r] = FileContent(rows[r].items)]
          /\ Issue(r, Call("write", 0, Null))
          /\ Goto(r, "upload")
  /\ UNCHANGED <<env, rows, fileId, jobId, status, polled, newModel, envVars,
                 logged, files, jobs, store, builds>>
  /\ UNCHANGED served

\* await openai.createFile(fs.createReadStream("training-data.jsonl"), "fine-tune")
Upload(r) ==
  /\ pc[r] = "upload"
  /\ Issue(r, Call("upload", 0, Null))
  /\ \/ /\ Caught(r)
        /\ UNCHANGED <<files, fileId>>
     \/ /\ "OPENAI_API_KEY" \in env[r]       \* the provider rejects a call without a key
        /\ files' = Append(files, file[r])
        /\ fileId' = [fileId EXCEPT ![r] = Len(files) + 1]
        /\ Goto(r, "submit")
  /\ UNCHANGED <<env, rows, file, jobId, status, polled, newModel, envVars,
                 logged, jobs, store, builds>>
  /\ UNCHANGED served

\* the job record the provider creates for createFineTune
NewJob(id, f, s) ==
  [id |-> id, training_file |-> f, status |-> s,
   fine_tuned_model |-> IF s = "succeeded" THEN ModelOf(id) ELSE Null]

\* while (status !== "succeeded" && status !== "failed")
LoopContinuesWhileQueued(s) == s = "queued"
LoopContinuesForever(s) == TRUE
LoopContinues(s) == s # "succeeded" /\ s # "failed"

\* if (status === "failed") process.exit(1), after the loop
FailedIgnored(s) == FALSE
FailedExits(s) == s = "failed"

\* the loop test and the statements after the loop, on the status just read
AfterStatus(r, s) ==
  IF LoopContinues(s) THEN Goto(r, "poll")
  ELSE IF FailedExits(s) THEN Exit(r, 1)
  ELSE Goto(r, "final")

\* the submission that keeps the id of the first job of the provider
SubmitFirstJob(r) ==
  /\ pc[r] = "submit"
  /\ Issue(r, Call("submit", 0, Null))
  /\ \/ /\ Caught(r)
        /\ UNCHANGED <<jobs, jobId, status>>
     \/ \E s \in Status :
          /\ jobs' = Append(jobs, NewJob(Len(jobs) + 1, fileId[r], s))
          /\ jobId' = [jobId EXCEPT ![r] = 1]
          /\ status' = [status EXCEPT ![r] = jobs'[1].status]
          /\ AfterStatus(r, jobs'[1].status)
  /\ UNCHANGED <<env, rows, file, fileId, polled, newModel, envVars, logged,
                 files, store, builds>>
  /\ UNCHANGED served

\* await openai.createFineTune({ training_file: fileId, model: baseModel })
Submit(r) ==
  /\ pc[r] = "submit"
  /\ Issue(r, Call("submit", 0, Null))
  /\ \/ /\ Caught(r)
        /\ UNCHANGED <<jobs, jobId, status>>
     \/ \E s \in Status :
          /\ jobs' = Append(jobs, NewJob(Len(jobs) + 1, fileId[r], s))
          /\ jobId' = [jobId EXCEPT ![r] = Len(jobs) + 1]
          /\ status' = [status EXCEPT ![r] = s]
          /\ AfterStatus(r, s)
  /\ UNCHANGED <<env, rows, file, fileId, polled, newModel, envVars, logged,
                 files, store, builds>>
  /\ UNCHANGED served

\* the statuses read in the loop; replies after the first MaxPolls + 1 are not kept
Record(seq, s) == IF Len(seq) <= MaxPolls THEN Append(seq, s) ELSE seq

\* the loop body: the 30 s wait, then await openai.retrieveFineTune(jobId)
Poll(r) ==
  /\ pc[r] = "poll"
  /\ \/ /\ Caught(r)
        /\ UNCHANGED <<status, polled>>
     \/ /\ status' = [status EXCEPT ![r] = jobs[jobId[r]].status]
        /\ polled' = [polled EXCEPT ![r] = Record(@, jobs[jobId[r]].status)]
        /\ AfterStatus(r, jobs[jobId[r]].status)
  /\ UNCHANGED <<env, rows, file, fileId, jobId, newModel, envVars, calls,
                 logged, files, jobs, store, builds>>
  /\ UNCHANGED served

\* if (!netlifyToken || !siteId)
NetlifyMissingTokenOnly(e) == "NETLIFY_AUTH_TOKEN" \notin e
NetlifyMissing(e) ==
  "NETLIFY_AUTH_TOKEN" \notin e \/ "NETLIFY_SITE_ID" \notin e

\* finalJob = await openai.retrieveFineTune(jobId); newModel is logged; then the
\* check of the Netlify variables
Final(r) ==
  /\ pc[r] = "final"
  /\ Issue(r, Call("retrieve", 0, Null))
  /\ \/ /\ Caught(r)
        /\ UNCHANGED <<newModel, logged>>
     \/ /\ newModel' = [newModel EXCEPT ![r] = jobs[jobId[r]].fine_tuned_model]
        /\ logged' = [logged EXCEPT ![r] = jobs[jobId[r]].fine_tuned_model]
        /\ IF NetlifyMissing(env[r]) THEN Exit(r, 0) ELSE Goto(r, "list")
  /\ UNCHANGED <<env, rows, file, fileId, jobId, status, polled, envVars,
                 files, jobs, store, builds>>
  /\ UNCHANGED served

\* envVars.find((v) => v.key === "FINE_TUNED_MODEL_NAME")
RECURSIVE Find(_)
FindNothing(es) == NotFound
Find(es) ==
  IF es = <<>> THEN NotFound
  ELSE IF Head(es).key = ModelKey THEN Head(es)
  ELSE Find(Tail(es))

\* await axios.get(`.../sites/${siteId}/env`)
List(r) ==
  /\ pc[r] = "list"
  /\ Issue(r, Call("list", 0, Null))
  /\ \/ /\ Caught(r)
        /\ UNCHANGED envVars
     \/ /\ envVars' = [envVars EXCEPT ![r] = store]
        /\ Goto(r, "upsert")
  /\ UNCHANGED <<env, rows, file, fileId, jobId, status, polled, newModel,
                 logged, files, jobs, store, builds>>
  /\ UNCHANGED served

\* the platform sets the production value of the entry with the given id
Patched(es, id, v) ==
  [i \in 1..Len(es) |-> IF es[i].id = id THEN [es[i] EXCEPT !.value = v] ELSE es[i]]

\* the create or update with its failure swallowed
UpsertUnchecked(r) ==
  /\ pc[r] = "upsert"
  /\ Issue(r, Call(IF Find(envVars[r]) = NotFound THEN "create" ELSE "update",
                   Find(envVars[r]).id, newModel[r]))
  /\ \/ UNCHANGED store
     \/ store' = IF Find(envVars[r]) = NotFound
                 THEN Append(store, Entry(Len(store) + 1, ModelKey, newModel[r]))
                 ELSE Patched(store, Find(envVars[r]).id, newModel[r])
  /\ Goto(r, "redeploy")
  /\ UNCHANGED <<env, rows, file, fileId, jobId, status, polled, newModel,
                 envVars, logged, files, jobs, builds>>
  /\ UNCHANGED served

\* if (!found) axios.post(.../env, { key, values }) else
\* axios.patch(.../env/${found.id}, { values })
Upsert(r) ==
  /\ pc[r] = "upsert"
  /\ IF Find(envVars[r]) = NotFound
     THEN /\ Issue(r, Call("create", 0, newModel[r]))
          /\ \/ /\ Caught(r)
                /\ UNCHANGED store
             \/ /\ store' = Append(store, Entry(Len(store) + 1, ModelKey, newModel[r]))
                /\ Goto(r, "redeploy")
     ELSE /\ Issue(r, Call("update", Find(envVars[r]).id, newModel[r]))
          /\ \/ /\ Caught(r)
                /\ UNCHANGED store
             \/ /\ store' = Patched(store, Find(envVars[r]).id, newModel[r])
                /\ Goto(r, "redeploy")
  /\ UNCHANGED <<env, rows, file, fileId, jobId, status, polled, newModel,
                 envVars, logged, files, jobs, builds>>
  /\ UNCHANGED served

\* await axios.post(`.../sites/${siteId}/builds`, {}); process.exit(0)
Redeploy(r) ==
  /\ pc[r] = "redeploy"
  /\ Issue(r, Call("redeploy", 0, Null))
  /\ \/ /\ Caught(r)
        /\ UNCHANGED builds
     \/ /\ builds' = Append(builds, r)
        /\ Exit(r, 0)
  /\ UNCHANGED <<env, rows, file, fileId, jobId, status, polled, newModel,
                 envVars, logged, files, jobs, store>>
  /\ UNCHANGED served

\* the provider moves a job: queued -> running -> succeeded | failed
Successors(s) ==
  CASE s = "queued"  -> {"running"}
    [] s = "running" -> {"succeeded", "failed"}
    [] OTHER         -> {}

ProviderStep(j) ==
  /\ j \in 1..Len(jobs)
  /\ \E s \in Successors(jobs[j].status) :
       jobs' = [jobs EXCEPT ![j] = NewJob(j, @.training_file, s)]
  /\ UNCHANGED <<pc, env, rows, file, fileId, jobId, status, polled, newModel,
                 envVars, exitCode, calls, logged, files, store, builds>>
  /\ UNCHANGED served

\* one step of the run r
Step(r) ==
  \/ Start(r)
  \/ Query(r)
  \/ BuildDataset(r)
  \/ Upload(r)
  \/ Submit(r)
  \/ Poll(r)
  \/ Final(r)
  \/ List(r)
  \/ Upsert(r)
  \/ Redeploy(r)

\* one invocation of the pipeline: the run r1 (r2 is never launched)
Next ==
  \/ Step("r1")
  \/ \E j \in 1..Len(jobs) : ProviderStep(j)

Spec == Init /\ [][Next]_vars

----------------------------------------------------------------------------
(* The dataset builder on its own: the run r1 has received a non-empty      *)
(* feedback reply and is about to build the JSONL file.                    *)

Texts == UNION {[1..n -> Alphabet] : n \in 0..MaxLen}

FixedRows == {GoodRow1, GoodRow2, BadRow}
FixedSeqs(n) == UNION {[1..k -> FixedRows] : k \in 0..n}

\* replies of 1..MaxRows rows: one row with any generated_text (or none) at any
\* position among fixed rows
BuildInputs ==
  {pre \o <<Row(<<"n">>, <<"QT", "NL">>, g)>> \o suf :
     pre \in FixedSeqs(MaxRows - 1), suf \in FixedSeqs(MaxRows - 1),
     g \in Texts \cup {NoText}}

InitBuild ==
  /\ ReportIdle /\ revision = "generate-report.js" /\ clock = 1
  /\ pc = [r \in Runs |-> IF r = "r1" THEN "build" ELSE "start"]
  /\ env = [r \in Runs |-> EnvNames]
  /\ \E items \in BuildInputs :
       /\ Len(items) <= MaxRows
       /\ rows = [r \in Runs |-> IF r = "r1" THEN Data(items) ELSE NoReply]
  /\ file = [r \in Runs |-> NoFile]
  /\ fileId = [r \in Runs |-> 0]
  /\ jobId = [r \in Runs |-> 0]
  /\ status = [r \in Runs |-> Null]
  /\ polled = [r \in Runs |-> <<>>]
  /\ newModel = [r \in Runs |-> Null]
  /\ envVars = [r \in Runs |-> <<>>]
  /\ exitCode = [r \in Runs |-> -1]
  /\ calls = [r \in Runs |-> IF r = "r1" THEN <<Call("query", 0, Null)>> ELSE <<>>]
  /\ logged = [r \in Runs |-> Null]
  /\ files = <<>>
  /\ jobs = <<>>
  /\ store = <<>>
  /\ builds = <<>>
  /\ FirstDeploy

NextBuild == BuildDataset("r1")

SpecBuild == InitBuild /\ [][NextBuild]_vars

----------------------------------------------------------------------------
(* Reading the file back *)

\* the number of line feeds in a text
RECURSIVE CountNL(_)
CountNL(s) ==
  IF s = <<>> THEN 0
  ELSE (IF Head(s) = "NL" THEN 1 ELSE 0) + CountNL(Tail(s))

\* the lines of a text, each ended by a line feed
RECURSIVE SplitFrom(_, _)
SplitFrom(s, cur) ==
  IF s = <<>> THEN (IF cur = <<>> THEN <<>> ELSE <<cur>>)
  ELSE IF Head(s) = "NL" THEN <<cur>> \o SplitFrom(Tail(s), <<>>)
  ELSE SplitFrom(Tail(s), Append(cur, Head(s)))

SplitLines(s) == SplitFrom(s, <<>>)

Written(r) == file[r] # NoFile

\* C9: once the training file of a run is written, it has exactly one line per
\* fetched row, the i-th line is the serialized example of the i-th row, and it
\* ends with exactly one line feed.
C9_OneLinePerRow ==
  \A r \in Runs :
    Written(r) =>
      /\ CountNL(file[r]) = Len(rows[r].items)
      /\ Len(SplitLines(file[r])) = Len(rows[r].items)
      /\ \A i \in 1..Len(rows[r].items) :
           SplitLines(file[r])[i] = Stringify(Example(rows[r].items[i]))
      /\ file[r][Len(file[r])] = "NL"
      /\ file[r][Len(file[r]) - 1] # "NL"

\* a file of two rows is written and a generated_text holds a line feed
C9_Witness ==
  /\ Written("r1")
  /\ Len(rows["r1"].items) = 2
  /\ \E i \in 1..2 : \E k \in 1..Len(rows["r1"].items[i].generated_text) :
       k > 1 /\ k < Len(rows["r1"].items[i].generated_text)
         /\ rows["r1"].items[i].generated_text[k] = "NL"

----------------------------------------------------------------------------
(* What a run has done *)

Ops(r) == {calls[r][i].op : i \in 1..Len(calls[r])}
CountOp(r, op) == Cardinality({i \in 1..Len(calls[r]) : calls[r][i].op = op})
ConfigOps == {"list", "create", "update", "redeploy"}
Exited(r) == pc[r] = "exited"

\* the values of the FINE_TUNED_MODEL_NAME entries of the store
Published == {store[i].value : i \in {k \in 1..Len(store) : store[k].key = ModelKey}}

\* C1: a run has issued a create or update of FINE_TUNED_MODEL_NAME only if the
\* status it read last is succeeded and its job has succeeded; and every value
\* of the entry other than the one present before the run is the model
\* identifier of a job that has succeeded.
C1_PublishOnlyAfterSucceeded ==
  /\ \A r \in Runs :
       Ops(r) \cap {"create", "update"} # {} =>
         /\ status[r] = "succeeded"
         /\ jobId[r] \in 1..Len(jobs)
         /\ jobs[jobId[r]].status = "succeeded"
  /\ \A v \in Published :
       \/ v = OldModel
       \/ \E j \in 1..Len(jobs) :
            jobs[j].status = "succeeded" /\ v = jobs[j].fine_tuned_model /\ v # Null

\* the entry holds the model of the run's job
C1_Witness ==
  /\ jobId["r1"] = 1
  /\ Published = {ModelOf(1)}
  /\ Len(polled["r1"]) >= 2

\* C2: a run that has read the status failed, from the submission reply or from a
\* poll, has exited with code 1 and has issued no list, create, update or redeploy.
C2_FailedJobAborts ==
  \A r \in Runs :
    (status[r] = "failed" \/ \E i \in 1..Len(polled[r]) : polled[r][i] = "failed") =>
      /\ Exited(r)
      /\ exitCode[r] = 1
      /\ Ops(r) \cap ConfigOps = {}
      /\ envVars[r] = <<>>

\* the failure is read by a poll after a running reply
C2_Witness ==
  /\ Len(polled["r1"]) >= 2
  /\ polled["r1"][1] = "running"
  /\ polled["r1"][Len(polled["r1"])] = "failed"
  /\ Exited("r1")

\* C3: a run whose feedback query returned no error and null or zero rows has
\* exited with code 0; it has written no file and issued no upload, job
\* submission or configuration call.
C3_EmptyReplyExitsZero ==
  \A r \in Runs :
    (rows[r].got /\ ~rows[r].error /\ (rows[r].null \/ Len(rows[r].items) = 0)) =>
      /\ Exited(r)
      /\ exitCode[r] = 0
      /\ file[r] = NoFile
      /\ Ops(r) = {"query"}
      /\ fileId[r] = 0 /\ jobId[r] = 0

\* the reply is an empty sequence (not null)
C3_Witness ==
  /\ rows["r1"].got /\ ~rows["r1"].error
  /\ ~rows["r1"].null /\ rows["r1"].items = <<>>
  /\ Exited("r1")

\* the run is past the poll loop and the exit on failed
PastLoop(r) == pc[r] \in {"final", "list", "upsert", "redeploy"} \/ "retrieve" \in Ops(r)

\* the final retrieval of the run has returned
Retrieved(r) ==
  /\ "retrieve" \in Ops(r)
  /\ pc[r] # "exited" \/ exitCode[r] = 0 \/ "list" \in Ops(r)

IsPrefix(p, q) == Len(p) <= Len(q) /\ \A i \in 1..Len(p) : p[i] = q[i]

\* C4: the loop is left only on a terminal status and as soon as one is read: a
\* run whose polls read running, running, succeeded has left the loop after
\* exactly these three reads and not before the third, and the model identifier
\* then retrieved is not null.
C4_PollUntilTerminal ==
  \A r \in Runs :
    /\ pc[r] = "poll" => status[r] \notin Terminal
    /\ PastLoop(r) =>
         /\ status[r] = "succeeded"
         /\ Len(polled[r]) <= MaxPolls =>
              \A i \in 1..(Len(polled[r]) - 1) : polled[r][i] \notin Terminal
    /\ (polled[r] # <<>> /\ IsPrefix(polled[r], <<"running", "running">>)) =>
         ~PastLoop(r) /\ newModel[r] = Null
    /\ IsPrefix(<<"running", "running", "succeeded">>, polled[r]) =>
         Len(polled[r]) = 3 /\ pc[r] # "poll"
    /\ Retrieved(r) => newModel[r] # Null /\ newModel[r] = ModelOf(jobId[r])

\* the polls read running, running, succeeded and the job was then retrieved
C4_Witness ==
  /\ polled["r1"] = <<"running", "running", "succeeded">>
  /\ Retrieved("r1")
  /\ newModel["r1"] = ModelOf(1)

HasKey(es) == \E i \in 1..Len(es) : es[i].key = ModelKey
IdsOfKey(es) == {es[i].id : i \in {k \in 1..Len(es) : es[k].key = ModelKey}}
CallsOf(r, op) == {calls[r][i] : i \in {k \in 1..Len(calls[r]) : calls[r][k].op = op}}

\* C5: a run that is past its upsert has issued, when the entries it listed hold
\* the key FINE_TUNED_MODEL_NAME, one update addressed to the id of that entry and
\* no create, and otherwise one create and no update; either carries the new
\* model identifier as the production value.
C5_Upsert ==
  \A r \in Runs :
    /\ (pc[r] = "redeploy" \/ "redeploy" \in Ops(r)) =>
         Ops(r) \cap {"create", "update"} # {}
    /\ Ops(r) \cap {"create", "update"} # {} =>
         IF HasKey(envVars[r])
         THEN /\ CountOp(r, "update") = 1 /\ CountOp(r, "create") = 0
              /\ \A c \in CallsOf(r, "update") :
                   c.id \in IdsOfKey(envVars[r]) /\ c.value = newModel[r]
         ELSE /\ CountOp(r, "create") = 1 /\ CountOp(r, "update") = 0
              /\ \A c \in CallsOf(r, "create") : c.value = newModel[r]
    /\ pc[r] = "redeploy" =>
         \E i \in 1..Len(store) :
           /\ store[i].key = ModelKey /\ store[i].value = newModel[r]
           /\ HasKey(envVars[r]) => store[i].id \in IdsOfKey(envVars[r])

\* an update addressed to the entry listed first, before another entry
C5_Witness ==
  /\ pc["r1"] = "redeploy"
  /\ envVars["r1"] = <<Entry(1, ModelKey, OldModel), Entry(2, "OPENAI_API_KEY", "sk")>>
  /\ CallsOf("r1", "update") = {Call("update", 1, ModelOf(1))}

\* a create, the key not being listed
C5_WitnessCreate ==
  /\ pc["r1"] = "redeploy"
  /\ envVars["r1"] = <<Entry(1, "OPENAI_API_KEY", "sk")>>
  /\ CallsOf("r1", "create") = {Call("create", 0, ModelOf(1))}

\* the run ended on a configuration call (list, create, update or redeploy) that
\* failed, after its job had succeeded
PublishFailed(r) ==
  /\ Exited(r)
  /\ Ops(r) \cap ConfigOps # {}
  /\ \A i \in 1..Len(builds) : builds[i] # r

\* C6, as claimed: a run whose configuration call failed after the job succeeded
\* has printed the new model identifier and has exited with code 0.
C6_Claimed ==
  \A r \in Runs :
    PublishFailed(r) =>
      /\ logged[r] # Null /\ logged[r] = newModel[r]
      /\ exitCode[r] = 0

\* C6, amended: a run whose configuration call failed after the job succeeded has
\* printed the new model identifier (before the first configuration call), and
\* has exited with code 1.
C6_PublishFailureIsFatal ==
  \A r \in Runs :
    /\ PublishFailed(r) =>
         /\ logged[r] # Null /\ logged[r] = newModel[r]
         /\ logged[r] = ModelOf(jobId[r])
         /\ exitCode[r] = 1
    /\ Ops(r) \cap ConfigOps # {} => logged[r] # Null

\* the update of the entry failed
C6_Witness ==
  /\ PublishFailed("r1")
  /\ calls["r1"][Len(calls["r1"])].op = "update"
  /\ Published = {OldModel}

\* C7, as claimed: a run with any of the five variables absent that has left its
\* first statement has exited with code 1 without any call.
C7_Claimed ==
  \A r \in Runs :
    (env[r] # EnvNames /\ pc[r] # "start") =>
      Exited(r) /\ exitCode[r] = 1 /\ calls[r] = <<>>

\* C7, amended: a run with SUPABASE_URL or SUPABASE_SERVICE_ROLE_KEY absent exits
\* with code 1 before any call; the other variables are not checked before the
\* feedback query, and a run with NETLIFY_AUTH_TOKEN or NETLIFY_SITE_ID absent
\* makes no configuration call and, its job retrieved, exits with code 0.
C7_MissingCredentials ==
  \A r \in Runs :
    /\ (("SUPABASE_URL" \notin env[r] \/ "SUPABASE_SERVICE_ROLE_KEY" \notin env[r])
          /\ pc[r] # "start") =>
         Exited(r) /\ exitCode[r] = 1 /\ calls[r] = <<>>
    /\ ("NETLIFY_AUTH_TOKEN" \notin env[r] \/ "NETLIFY_SITE_ID" \notin env[r]) =>
         /\ Ops(r) \cap ConfigOps = {}
         /\ newModel[r] # Null => Exited(r) /\ exitCode[r] = 0

\* the service key alone is absent and the run has exited
C7_Witness ==
  /\ env["r1"] = EnvNames \ {"SUPABASE_SERVICE_ROLE_KEY"}
  /\ Exited("r1")

\* the site identifier alone is absent and the run has exited after its job
C7_WitnessNetlify ==
  /\ env["r1"] = EnvNames \ {"NETLIFY_SITE_ID"}
  /\ Exited("r1")
  /\ newModel["r1"] = ModelOf(1)

\* how a run ended
Succeeded(r) ==
  /\ \E i \in 1..Len(builds) : builds[i] = r
  /\ Ops(r) \cap {"create", "update"} # {}
EmptyExit(r) ==
  rows[r].got /\ ~rows[r].error /\ (rows[r].null \/ Len(rows[r].items) = 0)
ManualExit(r) ==
  /\ "NETLIFY_AUTH_TOKEN" \notin env[r] \/ "NETLIFY_SITE_ID" \notin env[r]
  /\ "retrieve" \in Ops(r)
  /\ logged[r] # Null

\* C8, as claimed: an exited run has code 0 exactly when it published and
\* triggered the redeploy or left on an empty reply, and code 1 otherwise.
C8_Claimed ==
  \A r \in Runs :
    Exited(r) =>
      /\ exitCode[r] \in {0, 1}
      /\ exitCode[r] = 0 <=> (Succeeded(r) \/ EmptyExit(r))

\* C8, amended: an exited run has code 0 exactly when it published and triggered
\* the redeploy, left on an empty reply, or retrieved its succeeded job with
\* NETLIFY_AUTH_TOKEN or NETLIFY_SITE_ID absent; it has code 1 otherwise, in
\* particular with a Supabase variable absent, on a query error, on a failed job
\* and on an exception of any stage.
C8_ExitCodes ==
  \A r \in Runs :
    /\ exitCode[r] \in {-1, 0, 1}
    /\ Exited(r) <=> exitCode[r] # -1
    /\ Exited(r) =>
         /\ exitCode[r] = 0 <=> (Succeeded(r) \/ EmptyExit(r) \/ ManualExit(r))
         /\ ("SUPABASE_URL" \notin env[r] \/ "SUPABASE_SERVICE_ROLE_KEY" \notin env[r])
              => exitCode[r] = 1
         /\ rows[r].error => exitCode[r] = 1
         /\ status[r] = "failed" => exitCode[r] = 1
         /\ (calls[r] # <<>> /\ calls[r][Len(calls[r])].op
                                   \in {"upload", "submit", "list", "create", "update"})
              => exitCode[r] = 1

\* the exit with code 0 of a run that has neither published nor left on an empty
\* reply: a Netlify variable is absent
C8_Witness ==
  /\ Exited("r1") /\ exitCode["r1"] = 0
  /\ ManualExit("r1") /\ ~Succeeded("r1") /\ ~EmptyExit("r1")

\* a run ended by the catch block, the redeploy call having thrown
C8_WitnessThrow ==
  /\ Exited("r1") /\ exitCode["r1"] = 1
  /\ calls["r1"] # <<>>
  /\ calls["r1"][Len(calls["r1"])].op = "redeploy"

\* C10: a run whose reply holds a row without generated_text goes from the reply
\* to the exit with code 1: it writes no file, uploads nothing, submits no job
\* and makes no configuration call.
C10_MalformedRowAborts ==
  \A r \in Runs :
    (rows[r].got /\ \E i \in 1..Len(rows[r].items) :
                      rows[r].items[i].generated_text = NoText) =>
      /\ pc[r] \in {"build", "exited"}
      /\ Exited(r) => exitCode[r] = 1
      /\ file[r] = NoFile
      /\ Ops(r) = {"query"}
      /\ fileId[r] = 0 /\ jobId[r] = 0

\* the second row of the reply has no generated_text and the run has exited
C10_Witness ==
  /\ rows["r1"].got /\ Len(rows["r1"].items) = 2
  /\ rows["r1"].items[1].generated_text # NoText
  /\ rows["r1"].items[2].generated_text = NoText
  /\ Exited("r1")

\* the feedback read of the run failed: the reply carries an error, or the call
\* threw and no reply was received
ReadFailed(r) == rows[r].error \/ (~rows[r].got /\ "query" \in Ops(r))

\* C11: a run whose feedback read failed, by an error in the reply or by an
\* exception, has exited with code 1; it has written no file and issued no
\* upload, job submission or configuration call.
C11_ReadFailureIsFatal ==
  \A r \in Runs :
    ReadFailed(r) =>
      /\ Exited(r)
      /\ exitCode[r] = 1
      /\ file[r] = NoFile
      /\ Ops(r) = {"query"}
      /\ fileId[r] = 0 /\ jobId[r] = 0

\* the reply of the query carried an error
C11_Witness ==
  /\ rows["r1"].got /\ rows["r1"].error
  /\ Exited("r1")

\* the query threw
C11_WitnessThrow ==
  /\ ~rows["r1"].got /\ calls["r1"] = <<Call("query", 0, Null)>>
  /\ Exited("r1")

----------------------------------------------------------------------------
(* Two concurrent invocations of the pipeline, every variable set, sharing the *)
(* provider and the site's environment entries.                               *)

InitTwo ==
  /\ Init
  /\ env = [r \in Runs |-> EnvNames]
  /\ store \in {<<>>, <<Entry(1, ModelKey, OldModel), Entry(2, "OPENAI_API_KEY", "sk")>>}

NextTwo ==
  \/ \E r \in Runs : Step(r)
  \/ \E j \in 1..Len(jobs) : ProviderStep(j)

SpecTwo == InitTwo /\ [][NextTwo]_vars

\* the entries of the store with the key FINE_TUNED_MODEL_NAME
ModelEntries == {i \in 1..Len(store) : store[i].key = ModelKey}

\* the run r has just completed its create or update
Wrote(r) == pc[r] = "upsert" /\ pc'[r] = "redeploy"

\* C12: each run has its own job, and every completed configuration write of a
\* run leaves its model identifier as the value of FINE_TUNED_MODEL_NAME, so
\* that the value after both runs is the one of the last writer.
C12_Claimed ==
  [][\A r \in Runs :
       Wrote(r) =>
         /\ \A q \in Runs \ {r} : jobId[q] # jobId[r]
         /\ {store'[i].value : i \in {k \in 1..Len(store') : store'[k].key = ModelKey}}
              = {newModel[r]}]_vars

\* C18: the store never holds more than one entry with the key
\* FINE_TUNED_MODEL_NAME, and a run issues a create only while the store holds none.
C18_Claimed ==
  /\ Cardinality(ModelEntries) <= 1
  /\ \A r \in Runs :
       (Len(calls[r]) > 0 /\ calls[r][Len(calls[r])].op = "create" /\ ~Exited(r))
         => Cardinality(ModelEntries) = 1

----------------------------------------------------------------------------
(* One invocation whose process keeps running: the event loop resumes main   *)
(* whenever a timer or a reply is due.  Whether a call throws is left to the *)
(* service called.                                                           *)

\* a step of the run in which the awaited call returned a reply (no exception,
\* no error reply)
Replied(r) ==
  Step(r) /\ ~(pc'[r] = "exited" /\ exitCode'[r] = 1 /\ status'[r] = status[r])

SpecFair == Spec /\ WF_vars(Replied("r1"))

JobTerminal(r) == jobId[r] \in 1..Len(jobs) /\ jobs[jobId[r]].status \in Terminal

\* a run leaves the poll loop only with a terminal status read
LoopLeftOnTerminalOnly ==
  \A r \in Runs :
    (pc[r] = "poll" /\ pc'[r] # "poll") => status'[r] \in Terminal

\* C13, as claimed: once the job of the run is terminal the run eventually exits;
\* and a run in the poll loop leaves it (and exits) only after it has read a
\* terminal status, making no configuration call before.
C13_Claimed ==
  /\ JobTerminal("r1") ~> Exited("r1")
  /\ [][LoopLeftOnTerminalOnly]_vars
  /\ [](\A r \in Runs : Ops(r) \cap ConfigOps # {} => JobTerminal(r))

\* a run leaves the poll loop only with a terminal status read, or by an
\* exception of the status read that ends it with code 1
LoopLeftOnTerminalOrThrow ==
  \A r \in Runs :
    (pc[r] = "poll" /\ pc'[r] # "poll") =>
      \/ status'[r] \in Terminal /\ JobTerminal(r)
      \/ /\ pc'[r] = "exited" /\ exitCode'[r] = 1
         /\ status'[r] = status[r] /\ calls'[r] = calls[r]

\* C13, amended: once the job of the run is terminal the run eventually exits; a
\* run in the poll loop can always read the status once more, whatever the number
\* of reads made; it leaves the loop only after it has read a terminal status or
\* by an exception thrown by a status read (exit code 1); and it makes no
\* configuration call before its job has succeeded.
C13_PollsUntilTerminal ==
  /\ JobTerminal("r1") ~> Exited("r1")
  /\ [][LoopLeftOnTerminalOrThrow]_vars
  /\ [](\A r \in Runs :
          /\ Ops(r) \cap ConfigOps # {} => JobTerminal(r) /\ status[r] = "succeeded"
          /\ (pc[r] = "poll" /\ r = "r1") => ENABLED (Poll(r) /\ status'[r] = jobs[jobId[r]].status)
          /\ (pc[r] = "poll" /\ ~JobTerminal(r) /\ r = "r1") => ENABLED (Poll(r) /\ pc'[r] = "poll"))

\* the run has read more non-terminal statuses than are recorded, then a terminal
\* one, and has exited
C13_Witness ==
  /\ Len(polled["r1"]) > 3
  /\ \A i \in 1..3 : polled["r1"][i] \notin Terminal
  /\ status["r1"] = "succeeded"
  /\ Exited("r1") /\ exitCode["r1"] = 0

----------------------------------------------------------------------------
OnceOps == {"query", "write", "upload", "submit", "retrieve", "list", "redeploy"}

\* C14: a run issues the feedback query, the file upload, the job submission, the
\* final retrieval, the environment listing and the redeploy trigger at most once
\* each, and at most one create or update; and once a run has exited (a failed
\* call ends it in the same step) it issues no further call.
C14_NoRetry ==
  /\ [](\A r \in Runs :
          /\ \A op \in OnceOps : CountOp(r, op) <= 1
          /\ CountOp(r, "create") + CountOp(r, "update") <= 1)
  /\ [][\A r \in Runs : Exited(r) => (calls'[r] = calls[r] /\ pc'[r] = "exited")]_vars

\* the upload failed: it was issued once, no file id was obtained, the run exited
\* with code 1
C14_Witness ==
  /\ Exited("r1") /\ exitCode["r1"] = 1
  /\ calls["r1"] # <<>> /\ calls["r1"][Len(calls["r1"])].op = "upload"
  /\ fileId["r1"] = 0

\* a run that issued every call, each once
C14_WitnessAll ==
  /\ Exited("r1") /\ exitCode["r1"] = 0
  /\ {"query", "upload", "submit", "list", "redeploy"} \subseteq Ops("r1")
  /\ Len(calls["r1"]) = 8

----------------------------------------------------------------------------
(* The report handler: exports.handler of generate-report.js, one request at *)
(* a time.  A step runs the handler up to its next await.                    *)

pipeline == <<pc, env, rows, file, fileId, jobId, status, polled, newModel,
              envVars, exitCode, calls, logged, files, jobs, store, builds>>

\* the Date of a string, 0 where the code has null
safeParseDate(d) == IF TruthyDate(d) /\ d.kind = "date" THEN d.time ELSE 0

\* if (dateObj > now)
IsFutureNever(dateObj, now) == FALSE
IsFuture(dateObj, now) == dateObj > now

\* getWeatherData reaches its axios.get
WeatherNeedsCall(location, d, now) ==
  /\ Truthy(location) /\ TruthyDate(d)
  /\ safeParseDate(d) # 0
  /\ ~IsFuture(safeParseDate(d), now)

\* what getWeatherData returns when it does not reach its axios.get
WeatherWithoutCall(v, location, d, now) ==
  IF ~Truthy(location) \/ ~TruthyDate(d) THEN Result(TRUE, EmptyData)
  ELSE IF safeParseDate(d) = 0 THEN Result(TRUE, EmptyData)
  ELSE Result(TRUE, Note(v, d))

Reply(code, data) ==
  /\ hpc' = "done"
  /\ response' = Response(code, data)

\* the handler from its entry to its first await, or to its return
HandleOf(events, times) ==
  /\ hpc \in {"idle", "done"}
  /\ \E e \in events, t \in times :
       /\ t >= clock
       /\ event' = e
       /\ clock' = t
       /\ IF e.httpMethod = "OPTIONS"
          THEN /\ Reply(200, NoData)
               /\ weatherResult' = Result(TRUE, EmptyData)
               /\ weatherCalls' = <<>>
          ELSE IF e.body = "garbage"
          THEN /\ Reply(500, NoData)
               /\ weatherResult' = Result(TRUE, EmptyData)
               /\ weatherCalls' = <<>>
          ELSE IF e.body = "null" \/ ~Truthy(e.section) \/ ~e.context
          THEN /\ Reply(400, NoData)
               /\ weatherResult' = Result(TRUE, EmptyData)
               /\ weatherCalls' = <<>>
          ELSE IF TruthyDate(e.dateOfLoss) /\ Truthy(e.address)
          THEN IF WeatherNeedsCall(e.address, e.dateOfLoss, t)
               THEN /\ weatherCalls' = <<[q |-> e.address, dt |-> safeParseDate(e.dateOfLoss)]>>
                    /\ weatherResult' = Result(TRUE, EmptyData)
                    /\ hpc' = "weather"
                    /\ response' = NoResponse
               ELSE /\ weatherCalls' = <<>>
                    /\ weatherResult' = WeatherWithoutCall(revision, e.address, e.dateOfLoss, t)
                    /\ hpc' = "gpt"
                    /\ response' = NoResponse
          ELSE /\ weatherCalls' = <<>>
               /\ weatherResult' = Result(TRUE, EmptyData)
               /\ hpc' = "gpt"
               /\ response' = NoResponse
  /\ UNCHANGED <<revision, process, deployed>>
  /\ UNCHANGED pipeline

Handle == HandleOf(Events, Times)

\* the weather API has answered, or the request or the reading of the reply threw
WeatherReply ==
  /\ hpc = "weather"
  /\ \/ weatherResult' = Result(TRUE, DayData(revision, event.dateOfLoss))
     \/ weatherResult' = Result(FALSE, NoData)
  /\ hpc' = "gpt"
  /\ UNCHANGED <<revision, clock, event, weatherCalls, response, process, deployed>>
  /\ UNCHANGED pipeline

\* model: MODEL_NAME
ModelUsedFresh == ModelName(revision, deployed.value)
ModelUsed == process.modelName

\* the chat completion has answered, or threw
GptReply ==
  /\ hpc = "gpt"
  /\ process' = [process EXCEPT !.used = @ \cup {ModelUsed}]
  /\ \/ Reply(200, weatherResult.data)
     \/ Reply(500, NoData)
  /\ UNCHANGED <<revision, clock, event, weatherResult, weatherCalls, deployed>>
  /\ UNCHANGED pipeline

InitReport ==
  /\ ReportIdle
  /\ revision \in Revisions
  /\ clock = 1
  /\ pc = [r \in Runs |-> "start"]
  /\ env = [r \in Runs |-> EnvNames]
  /\ rows = [r \in Runs |-> NoReply]
  /\ file = [r \in Runs |-> NoFile]
  /\ fileId = [r \in Runs |-> 0]
  /\ jobId = [r \in Runs |-> 0]
  /\ status = [r \in Runs |-> Null]
  /\ polled = [r \in Runs |-> <<>>]
  /\ newModel = [r \in Runs |-> Null]
  /\ envVars = [r \in Runs |-> <<>>]
  /\ exitCode = [r \in Runs |-> -1]
  /\ calls = [r \in Runs |-> <<>>]
  /\ logged = [r \in Runs |-> Null]
  /\ files = <<>>
  /\ jobs = <<>>
  /\ store = <<>>
  /\ builds = <<>>
  /\ FirstDeploy

NextReport ==
  \/ Handle
  \/ WeatherReply
  \/ GptReply

SpecReport == InitReport /\ [][NextReport]_vars

\* the request in progress has passed the checks of method, body, section and
\* context
Accepted == hpc \in {"weather", "gpt"} \/ (hpc = "done" /\ response.statusCode \in {200, 500} /\ event.httpMethod = "POST" /\ event.body = "object")

\* the dateOfLoss of the request in progress is an instant after the time read
FutureRequest == event.dateOfLoss.kind = "date" /\ event.dateOfLoss.time > clock

\* the body of a 200 response to a POST has been returned
Answered == hpc = "done" /\ response.statusCode = 200 /\ event.httpMethod = "POST"

\* C15, as claimed: a request with a future dateOfLoss is answered with weather
\* data that is a note and makes no weather API call; and a weather API call is
\* made only for a request with an address and a parseable dateOfLoss not after
\* the time read.
C15_Claimed ==
  /\ FutureRequest => weatherCalls = <<>>
  /\ (FutureRequest /\ Answered) => response.weatherData.kind = "note"
  /\ weatherCalls # <<>> =>
       /\ Truthy(event.address)
       /\ event.dateOfLoss.kind = "date" /\ event.dateOfLoss.time <= clock

\* C15, amended: a request with a future dateOfLoss makes no weather API call; it
\* is answered with the note of the revision when it has an address, and with
\* empty weather data when it has none; a weather API call is made only for a
\* request with an address and a parseable dateOfLoss not after the time read,
\* once, for that address and that date; and every such accepted request makes it.
C15_WeatherLookup ==
  /\ FutureRequest => weatherCalls = <<>>
  /\ (FutureRequest /\ Answered) =>
       response.weatherData =
         IF Truthy(event.address) THEN Note(revision, event.dateOfLoss) ELSE EmptyData
  /\ weatherCalls # <<>> =>
       /\ Truthy(event.address)
       /\ event.dateOfLoss.kind = "date" /\ event.dateOfLoss.time <= clock
       /\ weatherCalls = <<[q |-> event.address, dt |-> event.dateOfLoss.time]>>
       /\ Accepted
  /\ (Accepted /\ Truthy(event.address) /\ event.dateOfLoss.kind = "date"
        /\ event.dateOfLoss.time <= clock) => Len(weatherCalls) = 1

\* a request with an address and a future dateOfLoss has been answered with a note
C15_Witness ==
  /\ Answered /\ FutureRequest /\ Truthy(event.address)
  /\ response.weatherData.kind = "note"

\* a request with an address and a past dateOfLoss has made its weather API call
C15_WitnessCall ==
  /\ Answered /\ event.dateOfLoss.time < clock /\ Len(weatherCalls) = 1
  /\ response.weatherData.kind = "day"

----------------------------------------------------------------------------
(* Decoding a line of the training file, as a JSON parser reads it *)

Unescaped(c) == IF c = "n" THEN "NL" ELSE c

\* reads a string literal after its opening quote: the characters up to the first
\* quote that is not escaped, and what follows that quote
RECURSIVE ReadString(_, _)
ReadString(s, acc) ==
  IF s = <<>> THEN [value |-> acc, rest |-> <<>>, closed |-> FALSE]
  ELSE IF Head(s) = "QT" THEN [value |-> acc, rest |-> Tail(s), closed |-> TRUE]
  ELSE IF Head(s) = "BS" /\ Len(s) >= 2
       THEN ReadString(Tail(Tail(s)), Append(acc, Unescaped(s[2])))
  ELSE ReadString(Tail(s), Append(acc, Head(s)))

StartsWith(s, p) == Len(s) >= Len(p) /\ SubSeq(s, 1, Len(p)) = p
After(s, p) == SubSeq(s, Len(p) + 1, Len(s))

ParseError == [prompt |-> <<"SyntaxError">>, completion |-> <<"SyntaxError">>]

\* the object { prompt, completion } a line decodes to
ParseLine(line) ==
  LET open1 == <<"{", "QT", "prompt", "QT", ":", "QT">>
      open2 == <<",", "QT", "completion", "QT", ":", "QT">>
  IN IF ~StartsWith(line, open1) THEN ParseError
     ELSE LET p == ReadString(After(line, open1), <<>>)
          IN IF ~p.closed \/ ~StartsWith(p.rest, open2) THEN ParseError
             ELSE LET c == ReadString(After(p.rest, open2), <<>>)
                  IN IF ~c.closed \/ c.rest # <<"}">> THEN ParseError
                     ELSE [prompt |-> p.value, completion |-> c.value]

\* t is g without its leading and trailing whitespace
IsTrimOf(t, g) ==
  \E i \in 0..Len(g), j \in 0..Len(g) :
    /\ i + j <= Len(g)
    /\ t = SubSeq(g, i + 1, Len(g) - j)
    /\ \A k \in 1..i : g[k] \in Whitespace
    /\ \A k \in (Len(g) - j + 1)..Len(g) : g[k] \in Whitespace
    /\ t = <<>> \/ (t[1] \notin Whitespace /\ t[Len(t)] \notin Whitespace)

\* C16: for every row of a written training file, the line of the row decodes to
\* the prompt of the row and to a completion made of the generated_text of the row
\* without its leading and trailing whitespace, followed by " END"; and
\* "  Hello world.  " gives "Hello world. END".
C16_CompletionRoundTrip ==
  /\ \A r \in Runs :
       Written(r) =>
         \A i \in 1..Len(rows[r].items) :
           LET row == rows[r].items[i]
               ex == ParseLine(SplitLines(file[r])[i])
           IN /\ ex # ParseError
              /\ ex.prompt = <<"Section: ">> \o row.section_id \o <<"NL", "User feedback: ">>
                               \o row.feedback \o <<"NL", "NL", "Now produce the final text:", "NL">>
              /\ \E t \in {SubSeq(row.generated_text, a, b) :
                             a \in 1..(Len(row.generated_text) + 1),
                             b \in 0..Len(row.generated_text)} :
                   /\ IsTrimOf(t, row.generated_text)
                   /\ ex.completion = t \o <<"SP", "END">>
  /\ Completion(Row(<<"n">>, <<"n">>, <<"SP", "SP", "Hello", "SP", "world.", "SP", "SP">>))
       = <<"Hello", "SP", "world.", "SP", "END">>

\* a file is written from a row whose generated_text has whitespace at both ends
\* around a quote
C16_Witness ==
  /\ Written("r1")
  /\ \E i \in 1..Len(rows["r1"].items) :
       LET g == rows["r1"].items[i].generated_text
       IN Len(g) = 3 /\ g[1] \in Whitespace /\ g[2] = "QT" /\ g[3] \in Whitespace

----------------------------------------------------------------------------
\* the calls of a complete run, in order (the seventh is a create or an update)
StageOrder == <<"query", "write", "upload", "submit", "retrieve", "list", "upsert",
                "redeploy">>

StageOp(op) == IF op \in {"create", "update"} THEN "upsert" ELSE op

\* the position of a statement of main in the text of main
Rank(label) ==
  CASE label = "start" -> 0
    [] label = "query" -> 1
    [] label = "build" -> 2
    [] label = "upload" -> 3
    [] label = "submit" -> 4
    [] label = "poll" -> 5
    [] label = "final" -> 6
    [] label = "list" -> 7
    [] label = "upsert" -> 8
    [] label = "redeploy" -> 9
    [] OTHER -> 10

\* C17: the calls of a run are, in order, an initial part of: query, file write,
\* upload, submit, final retrieval, list, create or update, redeploy; a call is
\* issued only with the result of the one before it at hand; the status reads of
\* the loop fall between the submission and the final retrieval; a run never
\* goes back to an earlier stage, and once exited it does nothing more.
C17_StagesInOrder ==
  /\ [](\A r \in Runs :
          /\ Len(calls[r]) <= Len(StageOrder)
          /\ \A i \in 1..Len(calls[r]) : StageOp(calls[r][i].op) = StageOrder[i]
          /\ "write" \in Ops(r) =>
               rows[r].got /\ ~rows[r].error /\ ~rows[r].null /\ rows[r].items # <<>>
          /\ "upload" \in Ops(r) => file[r] # NoFile
          /\ "submit" \in Ops(r) => fileId[r] # 0
          /\ polled[r] # <<>> =>
               /\ jobId[r] # 0
               /\ \A i \in 1..(Len(polled[r]) - 1) : polled[r][i] \notin Terminal
          /\ "retrieve" \in Ops(r) => jobId[r] # 0 /\ status[r] = "succeeded"
          /\ "list" \in Ops(r) => newModel[r] = ModelOf(jobId[r])
          /\ Ops(r) \cap {"create", "update"} # {} =>
               (Exited(r) \/ pc[r] = "redeploy") /\ "list" \in Ops(r)
          /\ "redeploy" \in Ops(r) => newModel[r] \in Published)
  /\ [][\A r \in Runs :
          /\ pc'[r] # pc[r] =>
               /\ Rank(pc'[r]) > Rank(pc[r])
               /\ pc'[r] # "exited" =>
                    \/ Rank(pc'[r]) = Rank(pc[r]) + 1
                    \/ pc[r] = "submit" /\ pc'[r] = "final"
          /\ polled'[r] # polled[r] =>
               /\ calls[r][Len(calls[r])].op = "submit"
               /\ calls'[r] = calls[r]
          /\ Exited(r) =>
               /\ pc'[r] = pc[r] /\ calls'[r] = calls[r] /\ polled'[r] = polled[r]
               /\ file'[r] = file[r] /\ store' = store /\ builds' = builds
               /\ files' = files /\ Len(jobs') = Len(jobs)]_vars

\* a run went through every stage, the loop included, and exited with code 0
C17_Witness ==
  /\ Exited("r1") /\ exitCode["r1"] = 0
  /\ Len(calls["r1"]) = 8
  /\ polled["r1"] # <<>>
  /\ builds = <<"r1">>

----------------------------------------------------------------------------
\* the run has issued its create or update
UpsertIssued(r) == Ops(r) \cap {"create", "update"} # {}

\* C19: a run issues the redeploy at most once, directly after its create or
\* update, and only with the written value in the store; a run that has exited
\* with its value in the store has issued it exactly once; a run whose create or
\* update failed, or that issued none, has issued no redeploy and triggered no
\* build.
C19_RedeployAfterUpsert ==
  \A r \in Runs :
    /\ CountOp(r, "redeploy") <= 1
    /\ "redeploy" \in Ops(r) =>
         /\ Len(calls[r]) >= 2
         /\ calls[r][Len(calls[r])].op = "redeploy"
         /\ calls[r][Len(calls[r]) - 1].op \in {"create", "update"}
         /\ newModel[r] # Null /\ newModel[r] \in Published
    /\ (UpsertIssued(r) /\ newModel[r] \in Published /\ Exited(r)) =>
         CountOp(r, "redeploy") = 1
    /\ (UpsertIssued(r) /\ newModel[r] \notin Published) =>
         /\ "redeploy" \notin Ops(r)
         /\ Exited(r) /\ exitCode[r] = 1
    /\ ~UpsertIssued(r) => "redeploy" \notin Ops(r)
    /\ Cardinality({i \in 1..Len(builds) : builds[i] = r}) <= CountOp(r, "redeploy")

\* the create or update of a run failed and the run exited without a redeploy
C19_Witness ==
  /\ UpsertIssued("r1") /\ newModel["r1"] \notin Published
  /\ Exited("r1") /\ "redeploy" \notin Ops("r1")

\* a run published and triggered its one redeploy
C19_WitnessRedeployed ==
  /\ Exited("r1") /\ newModel["r1"] \in Published
  /\ CountOp("r1", "redeploy") = 1 /\ builds = <<"r1">>

----------------------------------------------------------------------------
\* C20: a run without NETLIFY_AUTH_TOKEN or without NETLIFY_SITE_ID that has seen
\* its job succeeded and read the model identifier of the job has exited with
\* code 0, the identifier printed, its last call being that read; such a run
\* makes no list, create, update or redeploy call at any time, and the entries of
\* the site and its builds stay as they were.
C20_ManualFallback ==
  /\ [](\A r \in Runs :
          ("NETLIFY_AUTH_TOKEN" \notin env[r] \/ "NETLIFY_SITE_ID" \notin env[r]) =>
            /\ Ops(r) \cap ConfigOps = {}
            /\ (status[r] = "succeeded" /\ newModel[r] # Null) =>
                 /\ Exited(r) /\ exitCode[r] = 0
                 /\ logged[r] = jobs[jobId[r]].fine_tuned_model
                 /\ logged[r] = ModelOf(jobId[r])
                 /\ calls[r][Len(calls[r])].op = "retrieve"
                 /\ envVars[r] = <<>>)
  /\ [][("NETLIFY_AUTH_TOKEN" \notin env["r1"] \/ "NETLIFY_SITE_ID" \notin env["r1"]) =>
          (store' = store /\ builds' = builds /\ builds = <<>>)]_vars

\* the token alone is absent, the entry exists, the job succeeded after being
\* polled, and the run has exited with the identifier printed
C20_Witness ==
  /\ env["r1"] = EnvNames \ {"NETLIFY_AUTH_TOKEN"}
  /\ Published = {OldModel}
  /\ polled["r1"] # <<>> /\ status["r1"] = "succeeded"
  /\ logged["r1"] = ModelOf(1)
  /\ Exited("r1") /\ exitCode["r1"] = 0

----------------------------------------------------------------------------
\* the positions of the creates and updates among the calls of a run
Writes(r) == {i \in 1..Len(calls[r]) : calls[r][i].op \in {"create", "update"}}

\* C21: the value of every create or update a run issues is the fine_tuned_model
\* of the job the run itself submitted (trained on the file the run uploaded), a
\* job that has succeeded, read by the one retrieval the run issued after its loop
\* and just before the listing; no other run holds that job, and the value is not
\* the model of the job of another run.
C21_OwnModelPublished ==
  \A r \in Runs :
    \A i \in Writes(r) :
      /\ jobId[r] \in 1..Len(jobs)
      /\ jobs[jobId[r]].training_file = fileId[r]
      /\ jobs[jobId[r]].status = "succeeded" /\ status[r] = "succeeded"
      /\ calls[r][i].value = jobs[jobId[r]].fine_tuned_model
      /\ calls[r][i].value = ModelOf(jobId[r])
      /\ calls[r][i].value = newModel[r] /\ calls[r][i].value = logged[r]
      /\ CountOp(r, "retrieve") = 1
      /\ i >= 3 /\ calls[r][i - 2].op = "retrieve" /\ calls[r][i - 3].op = "submit"
      /\ \A q \in Runs \ {r} :
           /\ jobId[q] # jobId[r]
           /\ jobId[q] # 0 => calls[r][i].value # ModelOf(jobId[q])

\* both runs have issued their write, each for its own job; the run r1 has exited
\* and the entry holds the model of its job
C21_Witness ==
  /\ jobId["r1"] = 1 /\ jobId["r2"] = 2
  /\ Writes("r1") # {} /\ Writes("r2") # {}
  /\ Exited("r1") /\ ~Exited("r2")
  /\ Published = {ModelOf(1)}

----------------------------------------------------------------------------
(* The pipeline and the site it configures: one run of main, the builds of   *)
(* the platform, and the processes of the report handler.                   *)

\* the platform completes a triggered build: the new deploy carries the entries
\* of the site as they are now
Build ==
  /\ deployed.count < Len(builds)
  /\ deployed' = Deploy(deployed.count + 1, EnvValue(store, ModelKey))
  /\ UNCHANGED <<hpc, revision, clock, event, weatherResult, weatherCalls, response,
                 process>>
  /\ UNCHANGED pipeline

\* the platform starts a process of the deploy in production; loading the module
\* evaluates the const MODEL_NAME
ProcessStart ==
  /\ hpc \in {"idle", "done"}
  /\ process.id < MaxProcs
  /\ process' = Process(process.id + 1, deployed.count,
                        ModelName(revision, deployed.value), {})
  /\ UNCHANGED <<hpc, revision, clock, event, weatherResult, weatherCalls, response,
                 deployed>>
  /\ UNCHANGED pipeline

\* the requests served: a preflight, and a report section without weather lookup
ServedEvents ==
  {Request("OPTIONS", "garbage", Undefined, FALSE, Undefined, NoDate),
   Request("POST", "object", "Summary", TRUE, Undefined, NoDate)}

Serve == HandleOf(ServedEvents, {1})

ServeStores ==
  {<<>>,
   <<Entry(1, ModelKey, "")>>,
   <<Entry(1, "OPENAI_API_KEY", "sk"), Entry(2, ModelKey, OldModel)>>}

InitServe ==
  /\ ReportIdle
  /\ revision \in Revisions
  /\ clock = 1
  /\ pc = [r \in Runs |-> "start"]
  /\ env = [r \in Runs |-> EnvNames]
  /\ rows = [r \in Runs |-> NoReply]
  /\ file = [r \in Runs |-> NoFile]
  /\ fileId = [r \in Runs |-> 0]
  /\ jobId = [r \in Runs |-> 0]
  /\ status = [r \in Runs |-> Null]
  /\ polled = [r \in Runs |-> <<>>]
  /\ newModel = [r \in Runs |-> Null]
  /\ envVars = [r \in Runs |-> <<>>]
  /\ exitCode = [r \in Runs |-> -1]
  /\ calls = [r \in Runs |-> <<>>]
  /\ logged = [r \in Runs |-> Null]
  /\ files = <<>>
  /\ jobs = <<>>
  /\ store \in ServeStores
  /\ builds = <<>>
  /\ FirstDeploy

NextServe ==
  \/ Step("r1")
  \/ \E j \in 1..Len(jobs) : ProviderStep(j)
  \/ Build
  \/ ProcessStart
  \/ Serve
  \/ GptReply

SpecServe == InitServe /\ [][NextServe]_vars

\* C22: the models the chat completions of a process ask for are its MODEL_NAME
\* alone; MODEL_NAME is set when the process starts, to the FINE_TUNED_MODEL_NAME
\* of the deploy it starts in when that is set and not empty and to the default
\* model of the revision otherwise, and never changes while the process lives;
\* a create, update, redeploy or build leaves the running process as it is; and a
\* process has the model the pipeline published only if it started in a deploy
\* built after the run wrote the entry and triggered the redeploy.
C22_ModelFixedAtStart ==
  /\ [](/\ process.used \subseteq {process.modelName}
        /\ process.deploy = deployed.count =>
             process.modelName = IF deployed.value \notin {Undefined, ""}
                                 THEN deployed.value ELSE DefaultModel(revision)
        /\ process.deploy = 0 => process.modelName \in {DefaultModel(revision), OldModel}
        /\ process.modelName = ModelOf(1) =>
             /\ process.deploy >= 1 /\ deployed.count >= 1
             /\ "redeploy" \in Ops("r1") /\ builds # <<>>
             /\ newModel["r1"] = ModelOf(1) /\ ModelOf(1) \in Published)
  /\ [][/\ process'.id = process.id =>
             (process'.modelName = process.modelName /\ process'.deploy = process.deploy)
        /\ process'.id # process.id =>
             /\ process'.used = {}
             /\ process'.deploy = deployed.count
             /\ process'.modelName = IF deployed.value \notin {Undefined, ""}
                                     THEN deployed.value ELSE DefaultModel(revision)
        /\ (store' # store \/ builds' # builds \/ deployed' # deployed) =>
             process' = process]_vars

\* a process started after the build that followed the update has asked for the
\* published model
C22_Witness ==
  /\ process.id >= 2 /\ process.deploy = 1
  /\ process.modelName = ModelOf(1)
  /\ process.used = {ModelOf(1)}

\* the first process, started with an empty FINE_TUNED_MODEL_NAME, still asks for
\* the default model after the build that carries the published model
C22_WitnessOld ==
  /\ process.id = 1 /\ process.used = {DefaultModel(revision)}
  /\ store = <<Entry(1, ModelKey, ModelOf(1))>>
  /\ deployed = Deploy(1, ModelOf(1))
  /\ hpc = "gpt"

====
